---- MODULE Spec2Model ----
(***************************************************************************)
(* Query evaluation of the Part 7 sonnet search CLI (src/part7/app.py,     *)
(* src/part7/models.py): find_spans, search_sonnet, combine_results and    *)
(* the multi-word fold of main under search mode AND / OR.                 *)
(*                                                                         *)
(* Python strings are sequences of one-character strings.  Python objects  *)
(* that the code mutates in place live in a heap:                          *)
(*   heap.spans    the span lists owned by LineMatch objects (list.extend  *)
(*                 mutates them in place, so sharing is observable);       *)
(*   heap.results  the SearchResult objects (main assigns .matches).       *)
(* A LineMatch is a record [line_no, text, spans] whose spans field is the *)
(* address of its span list: its own fields are never re-assigned, so two  *)
(* LineMatch objects are distinguishable only by the list they point to.   *)
(* title_spans and line_matches lists are only ever replaced by new lists, *)
(* never mutated in place, and are therefore held by value.                *)
(***************************************************************************)
EXTENDS Integers, Sequences, FiniteSets, Bags, TLC

VARIABLES
  sonnets,           \* main: the loaded corpus, a sequence of sonnets
  search_mode,       \* config.search_mode
  pc,                \* position of the running loop
  words,             \* main: the words of the query not folded yet
  folded,            \* history: the words of the query folded so far
  combined_results,  \* main: accumulator, a sequence of SearchResult addresses
  results,           \* main: the last word's results, SearchResult addresses
  gated,             \* history: documents on which line 342 ran in this query
  heap,              \* [spans, results]: the objects allocated by the query
  live,              \* combine harness: results not yet passed to combine_results
  terms_of,          \* combine harness: address -> the terms a result stands for
  call,              \* combine harness: the last call <<result1, result2, ret>>
  carried,           \* history: [b, line_no] of every LineMatch carried by line 113
  text,              \* find_spans harness: argument
  pattern,           \* find_spans harness: argument
  found              \* find_spans harness: <<returned list>> once called, else <<>>

vars == <<sonnets, search_mode, pc, words, folded, combined_results, results,
          gated, heap, live, terms_of, call, carried, text, pattern, found>>

mainVars == <<sonnets, search_mode, words, folded, combined_results, results, gated>>
combVars == <<live, terms_of, call, carried>>
findVars == <<text, pattern, found>>

----------------------------------------------------------------------------
(* Bounds and input pools *)

MaxDocs == 2      \* corpus length
MaxWords == 3     \* words per query
MaxTerms == 3     \* per-term results handed to the combine harness
MaxTextLen == 3   \* find_spans harness: length of text
MaxPatLen == 2    \* find_spans harness: length of pattern

s_Test == <<"T","e","s","t">>
s_a_cat_sat == <<"a"," ","c","a","t"," ","s","a","t">>
s_a_bat_ran == <<"a"," ","b","a","t"," ","r","a","n">>
s_Love == <<"L","o","v","e">>
s_love == <<"l","o","v","e">>
s_No_Fool == <<"N","o"," ","F","o","o","l">>
s_fool == <<"f","o","o","l">>
s_love_a_fool == <<"l","o","v","e"," ","a"," ","f","o","o","l">>
s_at == <<"a","t">>
s_N == <<"N">>

TestDoc == [title |-> s_Test, lines |-> <<s_a_cat_sat, s_a_bat_ran>>]
LoveDoc == [title |-> s_Love, lines |-> <<s_love>>]
FoolDoc == [title |-> s_No_Fool, lines |-> <<s_love_a_fool>>]

Library == <<TestDoc, LoveDoc, FoolDoc>>
DocPool == {Library[k] : k \in 1..Len(Library)}
WordPool == {s_at, s_N, s_love, s_fool}
FindAlphabet == {"a", "b"}

SeqsUpTo(S, n) == UNION {[1..k -> S] : k \in 0..n}

\* the corpora: up to MaxDocs sonnets of the library, in library order
Corpora ==
  {[k \in 1..Len(ix) |-> Library[ix[k]]] :
     ix \in {s \in SeqsUpTo(1..Len(Library), MaxDocs) :
               \A k \in 1..(Len(s) - 1) : s[k] < s[k + 1]}}

----------------------------------------------------------------------------
(* str.lower *)

UpperToLower == ("T" :> "t") @@ ("L" :> "l") @@ ("F" :> "f") @@ ("N" :> "n")

LowerChar(c) == IF c \in DOMAIN UpperToLower THEN UpperToLower[c] ELSE c

lower(s) == [i \in 1..Len(s) |-> LowerChar(s[i])]

----------------------------------------------------------------------------
(* find_spans, app.py 24-34 *)

RECURSIVE find_spans_loop(_, _, _, _)
find_spans_loop(txt, pat, i, spans) ==
  IF i >= Len(txt) - Len(pat) + 1
  THEN spans
  ELSE find_spans_loop(txt, pat, i + 1,
         IF SubSeq(txt, i + 1, i + Len(pat)) = pat
         THEN Append(spans, <<i, i + Len(pat)>>)
         ELSE spans)

RECURSIVE find_spans_first_loop(_, _, _)
find_spans_first_loop(txt, pat, i) ==
  IF i >= Len(txt) - Len(pat) + 1
  THEN <<>>
  ELSE IF SubSeq(txt, i + 1, i + Len(pat)) = pat
       THEN << <<i, i + Len(pat)>> >>
       ELSE find_spans_first_loop(txt, pat, i + 1)

\* mutant: stops at the first occurrence
find_spans_first(txt, pat) ==
  IF pat = <<>> THEN <<>> ELSE find_spans_first_loop(txt, pat, 0)

find_spans(txt, pat) ==
  IF pat = <<>> THEN <<>> ELSE find_spans_loop(txt, pat, 0, <<>>)

----------------------------------------------------------------------------
(* models.py *)

LineMatch(line_no, txt, spans) == [line_no |-> line_no, text |-> txt, spans |-> spans]

LineMatch_copy(lm) == LineMatch(lm.line_no, lm.text, lm.spans)

SearchResult(title, title_spans, line_matches, matches) ==
  [title |-> title, title_spans |-> title_spans,
   line_matches |-> line_matches, matches |-> matches]

SearchResult_copy(r) == SearchResult(r.title, r.title_spans, r.line_matches, r.matches)

EmptyHeap == [spans |-> <<>>, results |-> <<>>]

\* a new list object holding spans; its address is Len(h.spans) + 1
AllocSpans(h, spans) == [h EXCEPT !.spans = Append(@, spans)]

\* a new SearchResult object; its address is Len(h.results) + 1
AllocResult(h, r) == [h EXCEPT !.results = Append(@, r)]

RECURSIVE SumLens(_, _)
SumLens(h, lms) ==
  IF lms = <<>> THEN 0 ELSE Len(h.spans[Head(lms).spans]) + SumLens(h, Tail(lms))

----------------------------------------------------------------------------
(* search_sonnet, app.py 67-88 *)

RECURSIVE search_lines(_, _, _, _, _)
search_lines(h, lines_raw, q, idx, line_matches) ==
  IF idx > Len(lines_raw)
  THEN [heap |-> h, line_matches |-> line_matches]
  ELSE LET spans == find_spans(lower(lines_raw[idx]), q) IN
       IF spans # <<>>
       THEN search_lines(AllocSpans(h, spans), lines_raw, q, idx + 1,
                         Append(line_matches,
                                LineMatch(idx, lines_raw[idx], Len(h.spans) + 1)))
       ELSE search_lines(h, lines_raw, q, idx + 1, line_matches)

search_sonnet(h, sonnet, query) ==
  LET q == lower(query)
      title_spans == find_spans(lower(sonnet.title), q)
      sl == search_lines(h, sonnet.lines, q, 1, <<>>)
      total == Len(title_spans) + SumLens(sl.heap, sl.line_matches)
  IN [heap |-> AllocResult(sl.heap,
                 SearchResult(sonnet.title, title_spans, sl.line_matches, total)),
      ret |-> Len(h.results) + 1]

----------------------------------------------------------------------------
(* sorted(...), app.py 99 and 115: Python's sort is stable *)

SpanLeq(a, b) == a[1] < b[1] \/ (a[1] = b[1] /\ a[2] <= b[2])

RECURSIVE insert_span(_, _)
insert_span(s, x) ==
  IF s = <<>> THEN <<x>>
  ELSE IF SpanLeq(Head(s), x) THEN <<Head(s)>> \o insert_span(Tail(s), x)
  ELSE <<x>> \o s

RECURSIVE sorted_spans_from(_, _)
sorted_spans_from(done, rest) ==
  IF rest = <<>> THEN done
  ELSE sorted_spans_from(insert_span(done, Head(rest)), Tail(rest))

sorted_spans(s) == sorted_spans_from(<<>>, s)

RECURSIVE insert_line_match(_, _)
insert_line_match(s, lm) ==
  IF s = <<>> THEN <<lm>>
  ELSE IF Head(s).line_no <= lm.line_no
       THEN <<Head(s)>> \o insert_line_match(Tail(s), lm)
  ELSE <<lm>> \o s

RECURSIVE sorted_by_line_no_from(_, _)
sorted_by_line_no_from(done, rest) ==
  IF rest = <<>> THEN done
  ELSE sorted_by_line_no_from(insert_line_match(done, Head(rest)), Tail(rest))

\* mutant: dict order, no sort
unsorted_line_matches(lms) == lms

sorted_by_line_no(lms) == sorted_by_line_no_from(<<>>, lms)

----------------------------------------------------------------------------
(* combine_results, app.py 91-117 *)

\* position of key ln in the insertion-ordered dict d, 0 when absent
KeyIndex(d, ln) ==
  IF \E k \in 1..Len(d) : d[k].line_no = ln
  THEN CHOOSE k \in 1..Len(d) : d[k].line_no = ln
  ELSE 0

\* {lm.line_no: lm for lm in ...}: a repeated key keeps its place, takes the last value
RECURSIVE dict_by_line_no(_, _)
dict_by_line_no(d, lms) ==
  IF lms = <<>> THEN d
  ELSE LET lm == Head(lms)
           k == KeyIndex(d, lm.line_no)
       IN dict_by_line_no(IF k # 0 THEN [d EXCEPT ![k] = lm] ELSE Append(d, lm),
                          Tail(lms))

\* mutant: the second result's count is dropped
combined_matches_first_only(m1, m2) == m1

\* line 98
combined_matches(m1, m2) == m1 + m2

\* mutant: spans of a line present on both sides are not added
extend_spans_dropped(spans, target, source) == spans

\* line 110: list.extend in place on the list at address target
extend_spans(spans, target, source) ==
  [spans EXCEPT ![target] = @ \o spans[source]]

\* lines 106-113; spans is heap.spans, d is lines_by_no
RECURSIVE merge_line_matches(_, _, _)
merge_line_matches(spans, d, lms2) ==
  IF lms2 = <<>> THEN [spans |-> spans, lines_by_no |-> d]
  ELSE LET lm == Head(lms2)
           ln == lm.line_no
           k == KeyIndex(d, ln)
       IN IF k # 0
          THEN merge_line_matches(extend_spans(spans, d[k].spans, lm.spans), d, Tail(lms2))
          ELSE merge_line_matches(spans, Append(d, LineMatch_copy(lm)), Tail(lms2))

combine_results(h, result1, result2) ==
  LET r1 == h.results[result1]
      r2 == h.results[result2]
      combined == SearchResult_copy(r1)
      m == merge_line_matches(h.spans, dict_by_line_no(<<>>, combined.line_matches),
                              r2.line_matches)
  IN [heap |-> [spans |-> m.spans,
                results |-> Append(h.results,
                  [combined EXCEPT
                     !.matches = combined_matches(r1.matches, r2.matches),
                     !.title_spans = sorted_spans(r1.title_spans \o r2.title_spans),
                     !.line_matches = sorted_by_line_no(m.lines_by_no)])],
      ret |-> Len(h.results) + 1]

\* line numbers of result2 that line 113 carries over
CarriedLines(h, result1, result2) ==
  {lm.line_no : lm \in {h.results[result2].line_matches[k] :
                          k \in 1..Len(h.results[result2].line_matches)}}
  \ {h.results[result1].line_matches[k].line_no :
       k \in 1..Len(h.results[result1].line_matches)}

----------------------------------------------------------------------------
(* main, app.py 253-350: the query loop *)

\* mutant: one side matching is enough
AndGateEither(m1, m2) == m1 > 0 \/ m2 > 0

\* line 337
AndGate(m1, m2) == m1 > 0 /\ m2 > 0

\* line 322: results = [search_sonnet(s, word) for s in sonnets]
RECURSIVE search_all(_, _, _, _, _)
search_all(h, ss, word, i, out) ==
  IF i > Len(ss) THEN [heap |-> h, results |-> out]
  ELSE LET r == search_sonnet(h, ss[i], word)
       IN search_all(r.heap, ss, word, i + 1, Append(out, r.ret))

\* lines 329-344: for i in range(len(combined_results))
RECURSIVE merge_results(_, _, _, _, _, _)
merge_results(h, combined, res, mode, i, g) ==
  IF i > Len(combined)
  THEN [heap |-> h, combined_results |-> combined, gated |-> g]
  ELSE LET combined_result == combined[i]
           result == res[i]
       IN IF mode = "AND"
          THEN IF AndGate(h.results[combined_result].matches, h.results[result].matches)
               THEN LET c == combine_results(h, combined_result, result)
                    IN merge_results(c.heap, [combined EXCEPT ![i] = c.ret],
                                     res, mode, i + 1, g)
               ELSE merge_results([h EXCEPT !.results[combined_result].matches = 0],
                                  combined, res, mode, i + 1, g \cup {i})
          ELSE IF mode = "OR"
          THEN LET c == combine_results(h, combined_result, result)
               IN merge_results(c.heap, [combined EXCEPT ![i] = c.ret],
                                res, mode, i + 1, g)
          ELSE merge_results(h, combined, res, mode, i + 1, g)

IdleComb == live = {} /\ terms_of = <<>> /\ call = <<>> /\ carried = {}
IdleFind == text = <<>> /\ pattern = <<>> /\ found = <<>>
IdleMain == search_mode = "AND" /\ words = <<>> /\ folded = <<>>
            /\ combined_results = <<>> /\ results = <<>> /\ gated = {}

\* lines 255-263: config and corpus are loaded, then the prompt
Init ==
  /\ sonnets \in Corpora
  /\ search_mode \in {"AND", "OR"}
  /\ pc = "prompt"
  /\ words = <<>>
  /\ folded = <<>>
  /\ combined_results = <<>>
  /\ results = <<>>
  /\ gated = {}
  /\ heap = EmptyHeap
  /\ IdleComb
  /\ IdleFind

\* lines 295-303: ":search-mode AND|OR"
SetSearchMode(m) ==
  /\ pc = "prompt"
  /\ search_mode' = m
  /\ UNCHANGED <<sonnets, pc, words, folded, combined_results, results, gated, heap,
                 combVars, findVars>>

\* lines 267-318: a non-empty, non-command input line, split into words
ReadQuery(ws) ==
  /\ pc = "prompt"
  /\ ws # <<>>
  /\ words' = ws
  /\ folded' = <<>>
  /\ combined_results' = <<>>
  /\ results' = <<>>
  /\ gated' = {}
  /\ heap' = EmptyHeap
  /\ pc' = "query"
  /\ UNCHANGED <<sonnets, search_mode, combVars, findVars>>

\* lines 320-344: one iteration of "for word in words"
FoldWord ==
  /\ pc = "query"
  /\ words # <<>>
  /\ LET word == Head(words)
         sa == search_all(heap, sonnets, word, 1, <<>>)
     IN /\ results' = sa.results
        /\ IF combined_results = <<>>
           THEN /\ combined_results' = sa.results
                /\ heap' = sa.heap
                /\ gated' = gated
           ELSE LET m == merge_results(sa.heap, combined_results, sa.results,
                                       search_mode, 1, gated)
                IN /\ combined_results' = m.combined_results
                   /\ heap' = m.heap
                   /\ gated' = m.gated
        /\ folded' = Append(folded, word)
        /\ words' = Tail(words)
  /\ UNCHANGED <<sonnets, search_mode, pc, combVars, findVars>>

\* lines 347-350: the loop is over, the results are printed, back to the prompt.
\* Nothing reads the query's locals again before line 316 re-binds them, so the
\* objects of the finished query are dropped here.
PrintResults ==
  /\ pc = "query"
  /\ words = <<>>
  /\ pc' = "prompt"
  /\ folded' = <<>>
  /\ combined_results' = <<>>
  /\ results' = <<>>
  /\ gated' = {}
  /\ heap' = EmptyHeap
  /\ UNCHANGED <<sonnets, search_mode, words, combVars, findVars>>

Next ==
  \/ \E m \in {"AND", "OR"} : SetSearchMode(m)
  \/ \E ws \in SeqsUpTo(WordPool, MaxWords) : ReadQuery(ws)
  \/ FoldWord
  \/ PrintResults

Spec == Init /\ [][Next]_vars

----------------------------------------------------------------------------
(* combine_results applied to fresh per-term results of one sonnet, in any *)
(* order and grouping; every result is passed to combine_results once.     *)

RECURSIVE search_terms(_, _, _, _)
search_terms(h, sonnet, terms, k) ==
  IF k > Len(terms) THEN h
  ELSE search_terms(search_sonnet(h, sonnet, terms[k]).heap, sonnet, terms, k + 1)

InitComb ==
  /\ \E d \in DocPool : sonnets = <<d>>
  /\ \E terms \in SeqsUpTo(WordPool, MaxTerms) :
       /\ terms # <<>>
       /\ heap = search_terms(EmptyHeap, sonnets[1], terms, 1)
       /\ live = 1..Len(terms)
       /\ terms_of = [k \in 1..Len(terms) |-> <<terms[k]>>]
  /\ call = <<>>
  /\ carried = {}
  /\ pc = "combine"
  /\ IdleMain
  /\ IdleFind

Combine(a, b) ==
  /\ pc = "combine"
  /\ a # b
  /\ LET c == combine_results(heap, a, b)
     IN /\ heap' = c.heap
        /\ live' = (live \ {a, b}) \cup {c.ret}
        /\ terms_of' = Append(terms_of, terms_of[a] \o terms_of[b])
        /\ call' = <<a, b, c.ret>>
        /\ carried' = carried \cup
             {[b |-> b, line_no |-> ln] : ln \in CarriedLines(heap, a, b)}
  /\ UNCHANGED <<pc, mainVars, findVars>>

NextComb == \E a \in live, b \in live : Combine(a, b)

SpecComb == InitComb /\ [][NextComb]_vars

----------------------------------------------------------------------------
(* find_spans applied to one text and one pattern *)

InitFind ==
  /\ text \in SeqsUpTo(FindAlphabet, MaxTextLen)
  /\ pattern \in SeqsUpTo(FindAlphabet, MaxPatLen)
  /\ found = <<>>
  /\ pc = "find"
  /\ sonnets = <<>>
  /\ heap = EmptyHeap
  /\ IdleMain
  /\ IdleComb

CallFindSpans ==
  /\ pc = "find"
  /\ found' = <<find_spans(text, pattern)>>
  /\ pc' = "done"
  /\ UNCHANGED <<text, pattern, mainVars, heap, combVars>>

NextFind == CallFindSpans

SpecFind == InitFind /\ [][NextFind]_vars

----------------------------------------------------------------------------
(* Observers used by the properties *)

\* start indices at which w occurs in txt, case-insensitively
Occ(txt, w) ==
  {i \in 0..(Len(txt) - Len(w)) :
     \A j \in 1..Len(w) : LowerChar(txt[i + j]) = LowerChar(w[j])}

SpansOf(txt, w) == {<<i, i + Len(w)>> : i \in Occ(txt, w)}

\* text 0 of a sonnet is its title, text k its k-th line
TextOf(doc, k) == IF k = 0 THEN doc.title ELSE doc.lines[k]

Count(doc, w) ==
  Cardinality({p \in UNION {{<<k, i>> : i \in Occ(TextOf(doc, k), w)} :
                              k \in 0..Len(doc.lines)} : TRUE})

RECURSIVE SumCounts(_, _)
SumCounts(doc, ws) ==
  IF ws = <<>> THEN 0 ELSE Count(doc, Head(ws)) + SumCounts(doc, Tail(ws))

BagOfSeq(s) ==
  [x \in {s[i] : i \in 1..Len(s)} |-> Cardinality({i \in 1..Len(s) : s[i] = x})]

\* the spans of all terms ws in txt, with multiplicity
CanonBag(txt, ws) ==
  [sp \in UNION {SpansOf(txt, ws[k]) : k \in 1..Len(ws)} |->
     Cardinality({k \in 1..Len(ws) : sp \in SpansOf(txt, ws[k])})]

LineNos(r) == {r.line_matches[k].line_no : k \in 1..Len(r.line_matches)}

\* the spans result r holds for line ln, <<>> when it has no such line
LineSpans(h, r, ln) ==
  LET lms == h.results[r].line_matches
  IN IF \E k \in 1..Len(lms) : lms[k].line_no = ln
     THEN h.spans[lms[CHOOSE k \in 1..Len(lms) : lms[k].line_no = ln].spans]
     ELSE <<>>

\* len(title_spans) + sum(len(lm.spans) for lm in line_matches)
SpanTotal(h, r) ==
  LET res == h.results[r]
      lens == [k \in 1..Len(res.line_matches) |-> Len(h.spans[res.line_matches[k].spans])]
  IN Len(res.title_spans)
     + Cardinality({p \in UNION {{<<k, n>> : n \in 1..lens[k]} : k \in DOMAIN lens} : TRUE})

\* title_spans and line_matches of result r, span lists read through the heap
Data(h, r) ==
  LET res == h.results[r]
  IN [title_spans |-> res.title_spans,
      line_matches |-> [k \in 1..Len(res.line_matches) |->
         [line_no |-> res.line_matches[k].line_no,
          text |-> res.line_matches[k].text,
          spans |-> h.spans[res.line_matches[k].spans]]]]

Matches(h, r) == h.results[r].matches

Docs == 1..Len(sonnets)

----------------------------------------------------------------------------
(* Properties *)

Acc(i) == combined_results[i]

\* at least one word of the running query has been folded
Folding == pc = "query" /\ folded # <<>>

\* C1: under AND, after any non-empty sequence of folded words, a document's
\* matches is > 0 exactly when every folded word occurs (case-insensitively) in
\* its title or one of its lines.
C1_AndMatchesIffAllTerms ==
  (Folding /\ search_mode = "AND") =>
    \A i \in Docs :
      (Matches(heap, Acc(i)) > 0)
        <=> (\A k \in 1..Len(folded) : Count(sonnets[i], folded[k]) > 0)

\* a document matched by the first word only ends at 0 next to one matched by all
C1_Witness ==
  /\ Folding /\ search_mode = "AND" /\ words = <<>> /\ Len(folded) >= 2
  /\ \E i \in Docs : /\ Count(sonnets[i], folded[1]) > 0
                     /\ Count(sonnets[i], folded[2]) = 0
                     /\ Matches(heap, Acc(i)) = 0
  /\ \E j \in Docs : Matches(heap, Acc(j)) > 0

\* C2 as stated: during a query every last-word result and every accumulator
\* entry has matches equal to its number of title spans plus line spans, in
\* both modes.
C2_MatchesEqualsSpanCount ==
  pc = "query" =>
    /\ \A i \in 1..Len(results) : Matches(heap, results[i]) = SpanTotal(heap, results[i])
    /\ \A i \in 1..Len(combined_results) : Matches(heap, Acc(i)) = SpanTotal(heap, Acc(i))

\* C2 amended: the equality holds for every last-word result, for every
\* accumulator entry in OR mode and for every AND-mode entry not yet gated; a
\* gated entry has matches 0 whatever spans it keeps.
C2_MatchesEqualsSpanCountUnlessGated ==
  pc = "query" =>
    /\ \A i \in 1..Len(results) : Matches(heap, results[i]) = SpanTotal(heap, results[i])
    /\ \A i \in 1..Len(combined_results) :
         IF i \in gated
         THEN search_mode = "AND" /\ Matches(heap, Acc(i)) = 0
         ELSE Matches(heap, Acc(i)) = SpanTotal(heap, Acc(i))

\* a gated entry that still holds spans, next to a combined entry
C2_Witness ==
  /\ Folding /\ Len(folded) >= 2
  /\ \E i \in gated : SpanTotal(heap, Acc(i)) > 0 /\ Matches(heap, Acc(i)) = 0
  /\ \E j \in Docs \ gated :
       /\ Matches(heap, Acc(j)) > Matches(heap, results[j])
       /\ Matches(heap, results[j]) > 0

C3_Case ==
  /\ pc = "query" /\ sonnets = <<TestDoc>> /\ search_mode = "OR"
  /\ folded = <<s_at>> /\ words = <<>>

\* C3 as stated: corpus {Test: "a cat sat", "a bat ran"}, query "at", mode OR
\* gives matches = 2, one span on each line and no title span.
C3_TestDocAtGivesTwo ==
  C3_Case =>
    /\ Matches(heap, Acc(1)) = 2
    /\ heap.results[Acc(1)].title_spans = <<>>
    /\ Len(LineSpans(heap, Acc(1), 1)) = 1
    /\ Len(LineSpans(heap, Acc(1), 2)) = 1

\* C3 amended: the same query gives matches = 3: two spans on line 1 ("cat" and
\* "sat"), one span on line 2 and no title span.
C3_TestDocAtGivesThree ==
  C3_Case =>
    /\ Matches(heap, Acc(1)) = 3
    /\ heap.results[Acc(1)].title_spans = <<>>
    /\ LineSpans(heap, Acc(1), 1) = << <<3, 5>>, <<7, 9>> >>
    /\ LineSpans(heap, Acc(1), 2) = << <<3, 5>> >>
    /\ LineNos(heap.results[Acc(1)]) = {1, 2}

C3_Witness == C3_Case /\ Len(combined_results) = 1 /\ Matches(heap, Acc(1)) > 0

\* C4: in AND mode, from the step that gates a document on, for the rest of
\* the query its matches is 0 and its title_spans and line_matches (spans
\* included) are what they were before that step.
C4_GateIsFinal ==
  [][pc = "query" =>
       \A i \in gated' :
         /\ Matches(heap', combined_results'[i]) = 0
         /\ Data(heap', combined_results'[i]) = Data(heap, combined_results[i])]_vars

\* a gated document whose stale spans survive a later word that occurs in it
C4_Witness ==
  /\ Folding /\ search_mode = "AND" /\ Len(folded) = 3
  /\ \E i \in gated :
       /\ Count(sonnets[i], folded[1]) > 0
       /\ Count(sonnets[i], folded[2]) = 0
       /\ Count(sonnets[i], folded[3]) > 0
       /\ Matches(heap, Acc(i)) = 0
       /\ SpanTotal(heap, Acc(i)) > 0

\* the documents for which the fold step calls combine_results
Combined(i) ==
  /\ Folding /\ words # <<>>
  /\ search_mode = "OR" \/ (search_mode = "AND" /\ i \notin gated')

C5_SumInOr ==
  (Folding /\ search_mode = "OR") =>
    \A i \in Docs : Matches(heap, Acc(i)) = SumCounts(sonnets[i], folded)

C5_CallAdds ==
  \A i \in Docs :
    Combined(i) =>
      Matches(heap', combined_results'[i])
        = Matches(heap, combined_results[i]) + Count(sonnets[i], Head(words))

\* C5: every combine_results call of the fold returns matches equal to the sum
\* of its arguments' matches as they were before the call, and in OR mode each
\* document's matches is the sum over the folded words of that word's count.
C5_CombineAddsMatches == []C5_SumInOr /\ [][C5_CallAdds]_vars

C5_Witness ==
  /\ Folding /\ search_mode = "OR" /\ Len(folded) = 3
  /\ \E i \in Docs :
       /\ Count(sonnets[i], folded[1]) > 0
       /\ Count(sonnets[i], folded[2]) > 0
       /\ Count(sonnets[i], folded[3]) > 0
       /\ Matches(heap, Acc(i)) >= 3

\* C6: the spans of a LineMatch of result2 that combine_results carried over
\* are never changed by a later combine_results call.
C6_CarriedSpansIndependent ==
  [][\A c \in carried :
       LineSpans(heap', c.b, c.line_no) = LineSpans(heap, c.b, c.line_no)]_vars

\* C7: whatever the order and grouping in which the fresh per-term results of
\* a sonnet were combined, a result has the sum of the terms' counts as
\* matches, the terms' title spans as a multiset, exactly the lines in which
\* some term occurs, and on each line the terms' spans as a multiset.
C7_FoldOrderIrrelevant ==
  pc = "combine" =>
    \A r \in live :
      LET res == heap.results[r]
          ws == terms_of[r]
          doc == sonnets[1]
      IN /\ res.matches = SumCounts(doc, ws)
         /\ BagOfSeq(res.title_spans) = CanonBag(doc.title, ws)
         /\ Len(res.line_matches) = Cardinality(LineNos(res))
         /\ LineNos(res) = {k \in 1..Len(doc.lines) :
                              \E n \in 1..Len(ws) : Occ(doc.lines[k], ws[n]) # {}}
         /\ \A ln \in LineNos(res) :
              BagOfSeq(LineSpans(heap, r, ln)) = CanonBag(doc.lines[ln], ws)

\* three terms combined as a . (b . c), two of them meeting on one line
C7_Witness ==
  /\ pc = "combine" /\ call # <<>>
  /\ Len(terms_of[call[3]]) = 3
  /\ Len(terms_of[call[2]]) = 2
  /\ call[3] \in live
  /\ \E ln \in LineNos(heap.results[call[3]]) : Len(LineSpans(heap, call[3], ln)) >= 3

\* C8: find_spans returns nothing for an empty pattern; otherwise it returns,
\* by ascending start, exactly the spans (i, i + len(pattern)) of the indices i
\* in [0, len(text) - len(pattern)] where pattern occurs, overlaps included,
\* each with 0 <= start < end <= len(text).
C8_FindSpansExact ==
  pc = "done" =>
    LET out == found[1]
        m == Len(pattern)
    IN IF pattern = <<>>
       THEN out = <<>>
       ELSE /\ {out[k] : k \in 1..Len(out)}
                 = {<<i, i + m>> : i \in {j \in 0..(Len(text) - m) :
                                            SubSeq(text, j + 1, j + m) = pattern}}
            /\ \A k \in 1..(Len(out) - 1) : out[k][1] < out[k + 1][1]
            /\ \A k \in 1..Len(out) :
                 0 <= out[k][1] /\ out[k][1] < out[k][2] /\ out[k][2] <= Len(text)

\* "aa" in "aaa": the two overlapping spans
C8_Witness ==
  /\ pc = "done"
  /\ text = <<"a", "a", "a">> /\ pattern = <<"a", "a">>
  /\ found[1] = << <<0, 2>>, <<1, 3>> >>

\* C9: in every SearchResult, fresh from search_sonnet or returned by any
\* sequence of combine_results calls, line_matches is strictly ascending by
\* line_no and no LineMatch has an empty span list.
C9_LineMatchesSortedNonEmpty ==
  \A r \in 1..Len(heap.results) :
    LET lms == heap.results[r].line_matches
    IN /\ \A k \in 1..(Len(lms) - 1) : lms[k].line_no < lms[k + 1].line_no
       /\ \A k \in 1..Len(lms) : heap.spans[lms[k].spans] # <<>>

\* a result whose first line came from result2 and whose second from result1
C9_Witness ==
  /\ pc = "combine" /\ call # <<>>
  /\ LineNos(heap.results[call[1]]) = {2}
  /\ LineNos(heap.results[call[3]]) = {1, 2}

\* C10: a combine_results call leaves both arguments as they were: matches,
\* title_spans, line_matches and the spans of every LineMatch.
C10_ArgumentsUnchanged ==
  [][call' # call =>
       \A n \in {1, 2} :
         /\ Data(heap', call'[n]) = Data(heap, call'[n])
         /\ Matches(heap', call'[n]) = Matches(heap, call'[n])]_vars

====
